---- MODULE Spec2Model ----
(***************************************************************************)
(* Model of the workload allocation of rust-teamwork-cli:                  *)
(* TeamWorkService::save_time and the helpers it uses                      *)
(* (src/src/teamwork_service.rs), run against a remote time-entry store;   *)
(* then get_remaining_workload and get_missing_entries on their own,       *)
(* parse_time_duration (src/src/main.rs) and the configuration with its    *)
(* time off and its file (src/src/teamwork_config.rs).                     *)
(*                                                                         *)
(* A date is a day index: day 0 is Thursday 2020-01-09, so the modelled    *)
(* range holds a Friday, a week-end and the following working days.        *)
(* Strings are sequences of one-character strings.                         *)
(***************************************************************************)
EXTENDS Integers, Sequences, FiniteSets, TLC

\* ------------------------------------------------------------------ bounds
\* last day index an input date (start date, today, entry date) may take
MaxDay == 5
\* most entries the remote holds before the run
MaxEntries == 2
\* most time-off records in the configuration
MaxTimesOff == 1
\* most entries another party adds to the remote during a run
MaxExternal == 1
\* most runs of save_time with the same request
MaxRuns == 2

\* ------------------------------------------------------- program constants
WORKING_DAY_DURATION == 8
\* page size save_time asks of the remote (last_time_entries(500, ...))
PageSize == 500

\* ------------------------------------------------------------ input sets
Dates == 0..MaxDay
\* today is the last day of the range or the day three days before it
Todays == {MaxDay - 3, MaxDay}
\* hours of an entry already on the remote
EntryHours == {5}
\* hours of a time-off record
TimeOffHours == {3}
\* the days time off is declared for: a Thursday, a Friday, a Saturday
TimeOffDays == <<0, 1, 2>>
\* hours asked of save_time (3 = the rest of a 5-hour day, 16 = two days)
RequestHours == {3, 16}

\* ------------------------------------------------------------- calendar
WeekdayNames == <<"Mon", "Tue", "Wed", "Thu", "Fri", "Sat", "Sun">>

\* chrono Datelike::weekday; day 0 is a Thursday
weekday(d) == WeekdayNames[((d + 3) % 7) + 1]

\* chrono NaiveDate::succ
succ(d) == d + 1

Digits == <<"0", "1", "2", "3", "4", "5", "6", "7", "8", "9">>

Pad2(n) == <<Digits[(n \div 10) + 1], Digits[(n % 10) + 1]>>

\* the calendar day of month of a day index (January 2020)
DayOfMonth(d) == 9 + d

\* date.format("%Y%m%d")
FormatYmd(d) == <<"2", "0", "2", "0">> \o Pad2(1) \o Pad2(DayOfMonth(d))

\* date.format("%Y-%m-%d")
FormatYmdDash(d) ==
    <<"2", "0", "2", "0", "-">> \o Pad2(1) \o <<"-">> \o Pad2(DayOfMonth(d))

DigitValue(c) == CHOOSE k \in 0..9 : Digits[k + 1] = c

\* the remote's reading of a %Y%m%d date (of January 2020): the day index
ParseYmd(s) == 10 * DigitValue(s[7]) + DigitValue(s[8]) - DayOfMonth(0)

is_working_day_every_day(d) == TRUE

is_working_day(d) == weekday(d) # "Sat" /\ weekday(d) # "Sun"

RECURSIVE SumHours(_)
\* the sum the `for` loops of get_remaining_workload subtract
SumHours(s) == IF s = <<>> THEN 0 ELSE Head(s).hours + SumHours(Tail(s))

Last(s) == s[Len(s)]

\* ------------------------------------------------------ daily quota
get_remaining_workload_full_day(date, existing_time_entries, times_off) ==
    WORKING_DAY_DURATION

get_remaining_workload_no_clamp(date, existing_time_entries, times_off) ==
    WORKING_DAY_DURATION
      - SumHours(SelectSeq(existing_time_entries, LAMBDA t : t.date = date))
      - SumHours(SelectSeq(times_off, LAMBDA t : t.date = FormatYmdDash(date)))

get_remaining_workload(date, existing_time_entries, times_off) ==
    LET existings == SelectSeq(existing_time_entries, LAMBDA t : t.date = date)
        tos == SelectSeq(times_off, LAMBDA t : t.date = FormatYmdDash(date))
        remaining_workload ==
            WORKING_DAY_DURATION - SumHours(existings) - SumHours(tos)
    IN  IF remaining_workload < 0 THEN 0 ELSE remaining_workload

\* ------------------------------------------------------ the remote store
\* The remote keeps its entries newest first (sortby date, sortorder DESC).
InsertEntry(s, e) ==
    LET k == Cardinality({i \in DOMAIN s : s[i].date > e.date})
    IN  SubSeq(s, 1, k) \o <<e>> \o SubSeq(s, k + 1, Len(s))

\* the answer to time_entries.json?pageSize=nb_result&fromdate=start_date
TimeEntriesResponse(entries, nb_result, from_date) ==
    LET since == SelectSeq(entries, LAMBDA t : t.date >= ParseYmd(from_date))
    IN  SubSeq(since, 1, IF Len(since) < nb_result THEN Len(since) ELSE nb_result)

\* The outcomes of one POST of a time entry: the status the remote answers, or
\* ERR for a transport or response-parse failure; persisted tells whether the
\* remote stored the entry (a response can be lost after the entry is stored).
PostOutcomes ==
    { [status |-> "OK",  persisted |-> TRUE],
      [status |-> "NOK", persisted |-> FALSE],
      [status |-> "ERR", persisted |-> TRUE],
      [status |-> "ERR", persisted |-> FALSE] }

\* ------------------------------------------------------ save_time, pieces
\* the `?` operator: an Err result returns from the function
propagates_swallow(status) == FALSE

propagates_non_ok(status) == status # "OK"

propagates(status) == status = "ERR"

\* while current_date.lt(today) && remaining_input_hours > 0
loop_condition_no_hours(cur, tod, remaining) == cur < tod

loop_condition_inclusive(cur, tod, remaining) == cur < tod /\ remaining >= 0

loop_condition(cur, tod, remaining) == cur < tod /\ remaining > 0

\* get_remaining_workload(current_date, &existing_time_entries, times_off):
\* the entries the quota is computed from are the fetched ones, not the
\* ones the remote stores by now
quota_entries_refreshed(fetched, stored) == stored

quota_entries(fetched, stored) == fetched

\* if !dry_run { ... save_time_entry ... }
sends_entry_always(dry, quota) == TRUE

sends_entry(dry, quota) == ~dry

\* hours: remaining_workload.to_string()
entry_hours_whole_day(quota) == WORKING_DAY_DURATION

entry_hours(quota) == quota

RECURSIVE skip_non_working(_)
\* while !is_working_day(current_date) { current_date = current_date.succ() }
skip_non_working(d) == IF is_working_day(d) THEN d ELSE skip_non_working(succ(d))

\* current_date = current_date.succ(); then skip the non-working days
next_cursor_no_skip(d) == succ(d)

next_cursor_stays(d) == skip_non_working(d)

next_cursor(d) == skip_non_working(succ(d))

\* remaining_input_hours -= remaining_workload, in a dry run as in a real one
deducted_when_sent(dry, quota) == IF dry THEN 0 ELSE quota

deducted(dry, quota) == quota

\* return Ok(hours)
return_value_allocated(hours_arg, remaining) == hours_arg - remaining

return_value(hours_arg, remaining) == hours_arg

\* ------------------------------------------------------------------ state
VARIABLES
    remote,                 \* the time entries the remote holds, newest first
    remote0,                \* the entries the remote held before the first run
    times_off,              \* TeamWorkConfig.times_off
    today,                  \* Utc::today().naive_utc()
    start_date,             \* save_time argument
    hours,                  \* save_time argument
    dry_run,                \* save_time argument
    pc,                     \* where save_time stands
    existing_time_entries,  \* the entries save_time fetched
    current_date,           \* the cursor of the loop
    remaining_input_hours,  \* the requested hours not yet deducted
    result,                 \* what save_time returned
    trace,                  \* one record per loop iteration: the line printed
                            \* and the creation request sent, if any
    fetches,                \* time_entries.json requests answered in this run
    fetch_failed,           \* a fetch of this run (account or entries) failed
    run,                    \* number of the current run of the request
    external,               \* the entries another party added to the remote,
                            \* each with the number of iterations done before
    call                    \* the frame of the operation other than save_time
                            \* that is running (NoCall when none is)

vars == <<remote, remote0, times_off, today, start_date, hours, dry_run, pc,
          existing_time_entries, current_date, remaining_input_hours,
          result, trace, fetches, fetch_failed, run, external, call>>

\* what no step of save_time assigns
inputs == <<remote0, times_off, today, start_date, hours, dry_run, call>>

locals == <<existing_time_entries, current_date, remaining_input_hours>>

\* a date string a user can give `time-off save -d`, not in %Y-%m-%d form
NonCanonicalDate == <<"2", "0", "2", "0", "-", "1", "-", "1", "0">>

\* the date strings of the time-off records: the last index is the
\* non-canonical one
TimeOffDate(i) ==
    IF i <= Len(TimeOffDays) THEN FormatYmdDash(TimeOffDays[i]) ELSE NonCanonicalDate

\* configurations with_time_off can build: one record per date string; the
\* quota sums the records, so one order of the records stands for all
TimesOffConfigs ==
    { [i \in 1..n |-> [date |-> TimeOffDate(k[i]), hours |-> h[i]]] :
        <<n, k, h>> \in
          { <<n, k, h>> \in UNION { {n} \X [1..n -> 1..(Len(TimeOffDays) + 1)] \X [1..n -> TimeOffHours]
                                      : n \in 0..MaxTimesOff } :
              \A i \in 1..(n - 1) : k[i] < k[i + 1] } }

EntryRecords == [date : Dates, hours : EntryHours]

NewestFirst(s) ==
    \A i \in 1..(Len(s) - 1) :
        \/ s[i].date > s[i + 1].date
        \/ s[i].date = s[i + 1].date /\ s[i].hours >= s[i + 1].hours

InitialRemotes ==
    { s \in UNION {[1..n -> EntryRecords] : n \in 0..MaxEntries} : NewestFirst(s) }

NoResult == [kind |-> "none", value |-> 0, at |-> "-"]

Ok(v) == [kind |-> "Ok", value |-> v, at |-> "-"]

Err(where) == [kind |-> "Err", value |-> 0, at |-> where]

NoCall == [op |-> "none"]

Init ==
    /\ remote \in InitialRemotes
    /\ remote0 = remote
    /\ times_off \in TimesOffConfigs
    /\ today \in Todays
    /\ start_date \in Dates
    /\ hours \in RequestHours
    /\ dry_run \in BOOLEAN
    /\ pc = "get_account"
    /\ existing_time_entries = <<>>
    /\ current_date = start_date
    /\ remaining_input_hours = hours
    /\ result = NoResult
    /\ trace = <<>>
    /\ fetches = 0
    /\ fetch_failed = FALSE
    /\ run = 1
    /\ external = <<>>
    /\ call = NoCall

\* ------------------------------------------------------------ save_time
\* let account = self.get_account()?;
GetAccount ==
    /\ pc = "get_account"
    /\ \E failed \in BOOLEAN :
        /\ fetch_failed' = (fetch_failed \/ failed)
        /\ IF failed /\ propagates("ERR")
           THEN /\ pc' = "returned"
                /\ result' = Err("get_account")
           ELSE /\ pc' = "entries_account"
                /\ UNCHANGED result
    /\ UNCHANGED <<remote, inputs, locals, trace, fetches, run, external>>

\* last_time_entries: let account = self.get_account()?;
LastTimeEntriesAccount ==
    /\ pc = "entries_account"
    /\ \E failed \in BOOLEAN :
        /\ fetch_failed' = (fetch_failed \/ failed)
        /\ IF failed /\ propagates("ERR")
           THEN /\ pc' = "returned"
                /\ result' = Err("last_time_entries")
           ELSE /\ pc' = "entries_fetch"
                /\ UNCHANGED result
    /\ UNCHANGED <<remote, inputs, locals, trace, fetches, run, external>>

\* last_time_entries: the time_entries.json request, and on its success the
\* initialisation of the cursor and of the remaining hours
LastTimeEntriesFetch ==
    /\ pc = "entries_fetch"
    /\ \E failed \in BOOLEAN :
        /\ fetch_failed' = (fetch_failed \/ failed)
        /\ IF failed /\ propagates("ERR")
           THEN /\ pc' = "returned"
                /\ result' = Err("last_time_entries")
                /\ UNCHANGED <<locals, fetches>>
           ELSE /\ pc' = "loop"
                /\ existing_time_entries' =
                       IF failed THEN <<>>
                       ELSE TimeEntriesResponse(remote, PageSize, FormatYmd(start_date))
                /\ fetches' = IF failed THEN fetches ELSE fetches + 1
                /\ current_date' = start_date
                /\ remaining_input_hours' = hours
                /\ UNCHANGED result
    /\ UNCHANGED <<remote, inputs, trace, run, external>>

\* one iteration of the while loop of save_time
LoopIteration ==
    /\ pc = "loop"
    /\ loop_condition(current_date, today, remaining_input_hours)
    /\ LET remaining_workload ==
               get_remaining_workload(current_date,
                   quota_entries(existing_time_entries,
                       TimeEntriesResponse(remote, PageSize, FormatYmd(start_date))),
                   times_off)
           line == [run |-> run, date |-> FormatYmd(current_date),
                    quota |-> remaining_workload]
           advance ==
               /\ remaining_input_hours' =
                      remaining_input_hours - deducted(dry_run, remaining_workload)
               /\ current_date' = next_cursor(current_date)
               /\ pc' = "loop"
               /\ UNCHANGED result
       IN  IF sends_entry(dry_run, remaining_workload)
           THEN \E o \in PostOutcomes :
                  LET new_time_entry ==
                          [date |-> FormatYmd(current_date),
                           hours |-> entry_hours(remaining_workload)]
                  IN  /\ remote' =
                            IF o.persisted
                            THEN InsertEntry(remote,
                                     [date |-> ParseYmd(new_time_entry.date),
                                      hours |-> new_time_entry.hours])
                            ELSE remote
                      /\ trace' = Append(trace,
                            line @@ [sent |-> TRUE, hours |-> new_time_entry.hours,
                                     status |-> o.status, persisted |-> o.persisted])
                      /\ IF propagates(o.status)
                         THEN /\ pc' = "returned"
                              /\ result' = Err("save_time_entry")
                              /\ UNCHANGED <<current_date, remaining_input_hours>>
                         ELSE advance
           ELSE /\ trace' = Append(trace,
                       line @@ [sent |-> FALSE, hours |-> 0,
                                status |-> "-", persisted |-> FALSE])
                /\ advance
                /\ UNCHANGED remote
    /\ UNCHANGED <<inputs, existing_time_entries, fetches, fetch_failed, run, external>>

\* the loop condition is false: return Ok(hours)
LoopExit ==
    /\ pc = "loop"
    /\ ~loop_condition(current_date, today, remaining_input_hours)
    /\ pc' = "returned"
    /\ result' = Ok(return_value(hours, remaining_input_hours))
    /\ UNCHANGED <<remote, inputs, locals, trace, fetches, fetch_failed, run, external>>

Next ==
    \/ GetAccount
    \/ LastTimeEntriesAccount
    \/ LastTimeEntriesFetch
    \/ LoopIteration
    \/ LoopExit

Spec == Init /\ [][Next]_vars

\* ------------------------------------------- another party on the remote
\* Another client of the same account stores an entry while save_time runs.
ExternalAdd ==
    /\ pc \in {"entries_fetch", "loop"}
    /\ Len(external) < MaxExternal
    /\ \E d \in Dates, h \in EntryHours :
        /\ remote' = InsertEntry(remote, [date |-> d, hours |-> h])
        /\ external' = Append(external,
               [date |-> d, hours |-> h, fetched |-> fetches, after |-> Len(trace)])
    /\ UNCHANGED <<inputs, pc, locals, result, trace, fetches, fetch_failed, run>>

\* requests of 16 hours up to the last day; the remote is empty before the
\* run: what it holds, the other party adds
InitExt == Init /\ remote = <<>> /\ today = MaxDay /\ hours = 16 /\ Len(times_off) <= 1

NextExt == Next \/ ExternalAdd

SpecExt == InitExt /\ [][NextExt]_vars

\* ------------------------------------------------- the request run again
\* The operator invokes save_time again with the same arguments.
Rerun ==
    /\ pc = "returned"
    /\ run < MaxRuns
    /\ run' = run + 1
    /\ pc' = "get_account"
    /\ existing_time_entries' = <<>>
    /\ current_date' = start_date
    /\ remaining_input_hours' = hours
    /\ result' = NoResult
    /\ fetches' = 0
    /\ fetch_failed' = FALSE
    /\ UNCHANGED <<remote, inputs, trace, external>>

\* non-dry requests up to the last day, with no time off and at most one
\* entry on the remote, on the start date
InitRerun ==
    /\ Init
    /\ today = MaxDay /\ ~dry_run /\ times_off = <<>>
    /\ Len(remote) <= 1
    /\ \A k \in DOMAIN remote : remote[k].date = start_date

NextRerun == Next \/ Rerun

SpecRerun == InitRerun /\ [][NextRerun]_vars

\* ===================================================== properties
\* the iterations of the current run, in order
ThisRun == {i \in DOMAIN trace : trace[i].run = run}

DayOf(line) == ParseYmd(line.date)

\* hours already logged on d in the fetched snapshot
Logged(d) == SumHours(SelectSeq(existing_time_entries, LAMBDA t : t.date = d))

\* time-off hours declared for d (records whose date string is d as %Y-%m-%d)
TimeOffDeclared(d) ==
    SumHours(SelectSeq(times_off, LAMBDA t : t.date = FormatYmdDash(d)))

RECURSIVE QuotaBefore(_)
\* the quotas of the iterations of the current run before iteration i
QuotaBefore(i) ==
    IF i <= 1 THEN 0
    ELSE (IF (i - 1) \in ThisRun THEN trace[i - 1].quota ELSE 0) + QuotaBefore(i - 1)

LastIsThisRun == trace # <<>> /\ Len(trace) \in ThisRun

\* C1: within one non-dry run no day is double-booked: a date that receives
\* an entry and had logged + time-off hours of at most 8 has at most 8 with
\* the submitted hours added, and no date receives two submissions.
C1_NoDoubleBooking ==
    /\ \A i \in ThisRun :
          trace[i].sent =>
            LET d == DayOf(trace[i])
            IN  Logged(d) + TimeOffDeclared(d) <= 8
                  => Logged(d) + TimeOffDeclared(d) + trace[i].hours <= 8
    /\ \A i, j \in ThisRun :
          (i < j /\ trace[i].sent /\ trace[j].sent) => trace[i].date # trace[j].date

\* a day with 5 hours logged received the 3 hours left, after another day
\* received its entry
C1_Witness ==
    \E i, j \in ThisRun :
        /\ i < j /\ trace[i].sent /\ trace[j].sent
        /\ Logged(DayOf(trace[j])) = 5 /\ trace[j].hours = 3

\* C2 as stated: a failed submission is caught and the loop continues, so
\* save_time does not return the error of a submission.
C2_SubmissionFailureContinues ==
    \A i \in ThisRun :
        trace[i].status = "ERR" => ~(pc = "returned" /\ result.kind = "Err")

\* C2 as the code has it: a failed submission (transport or response-parse
\* error) ends save_time with that error at once: the failed day is the last
\* one attempted, the cursor and the remaining hours stay where they were,
\* and the entries already stored stay on the remote (no rollback).
C2_SubmissionFailureAborts ==
    \A i \in ThisRun :
        trace[i].status = "ERR" =>
            /\ i = Len(trace)
            /\ pc = "returned"
            /\ result = Err("save_time_entry")
            /\ current_date = DayOf(trace[i])
            /\ remaining_input_hours = hours - QuotaBefore(i)
            /\ \A j \in ThisRun :
                  trace[j].persisted =>
                    \E k \in DOMAIN remote :
                        remote[k] = [date |-> DayOf(trace[j]), hours |-> trace[j].hours]

\* the second submission of a run failed after the first was stored
C2_Witness ==
    /\ Len(trace) = 2
    /\ trace[1].status = "OK" /\ trace[1].persisted
    /\ trace[2].status = "ERR"
    /\ loop_condition(next_cursor(current_date), today,
                      remaining_input_hours - trace[2].quota)

\* C3: when the fetch of the account or of the existing entries fails,
\* save_time returns the error and no creation request is sent in that run,
\* before or after the failure.
C3_FetchFailureBeforeWrites ==
    fetch_failed =>
        /\ pc = "returned"
        /\ result.kind = "Err"
        /\ result.at \in {"get_account", "last_time_entries"}
        /\ \A i \in ThisRun : ~trace[i].sent
        /\ remote = remote0

\* the entries fetch failed in a non-dry run whose first day has quota
C3_Witness ==
    /\ fetch_failed /\ result = Err("last_time_entries")
    /\ ~dry_run
    /\ loop_condition(start_date, today, hours)
    /\ get_remaining_workload(start_date,
           TimeEntriesResponse(remote, PageSize, FormatYmd(start_date)), times_off) > 0

\* C4 as stated: an entry is submitted only for a date whose quota is
\* greater than 0, with hours equal to the quota: no zero-hour entry.
C4_NoZeroHourEntry ==
    \A i \in ThisRun :
        trace[i].sent => (trace[i].quota > 0 /\ trace[i].hours = trace[i].quota)

\* C5: a dry run sends no creation request: the remote holds after the run
\* what it held before it.
C5_DryRunNoWrite ==
    dry_run => (remote = remote0 /\ \A i \in ThisRun : ~trace[i].sent)

\* a dry run that visited two days with quota has returned
C5_Witness ==
    /\ dry_run /\ pc = "returned" /\ result = Ok(hours)
    /\ \E i, j \in ThisRun : i < j /\ trace[i].quota > 0 /\ trace[j].quota > 0

\* C6 as stated: every date for which a quota is computed and an entry
\* submitted is a weekday, whatever the start date.
C6_CursorOnWorkingDay ==
    \A i \in ThisRun : weekday(DayOf(trace[i])) \notin {"Sat", "Sun"}

\* C7: an iteration happens only for a date before today and while requested
\* hours remain: no entry is submitted or reported for today or later, nor
\* once the quotas deducted have reached the requested hours.
C7_LoopGuard ==
    \A i \in ThisRun :
        /\ DayOf(trace[i]) < today
        /\ hours - QuotaBefore(i) > 0

\* a run stopped with days left before today because the request was used up
C7_Witness ==
    /\ pc = "returned" /\ result = Ok(hours) /\ LastIsThisRun
    /\ current_date < today /\ remaining_input_hours <= 0

\* C8: a creation response with a status other than OK is not fatal: the
\* quota of the day is deducted, the cursor advances to a later working day
\* and save_time returns success.
C8_NonOkStatusNonFatal ==
    (LastIsThisRun /\ Last(trace).status = "NOK") =>
        /\ pc \in {"loop", "returned"}
        /\ pc = "returned" => result = Ok(hours)
        /\ remaining_input_hours = hours - QuotaBefore(Len(trace) + 1)
        /\ current_date > DayOf(Last(trace))
        /\ weekday(current_date) \notin {"Sat", "Sun"}

\* after a non-OK answer a later day was submitted and save_time returned Ok
C8_Witness ==
    /\ pc = "returned" /\ result = Ok(hours)
    /\ \E i, j \in ThisRun :
        /\ i < j /\ trace[i].status = "NOK" /\ trace[i].quota > 0
        /\ trace[j].sent /\ trace[j].status = "OK"

\* C9: the existing entries are fetched once, before the first iteration,
\* and the quota of every iteration comes from that snapshot and the time-off
\* set: entries created by the run or added by another party after the fetch
\* do not change it.
C9_SingleSnapshot ==
    /\ fetches <= 1
    /\ (pc = "loop" \/ ThisRun # {}) => fetches = 1
    /\ \A i \in ThisRun :
          LET d == DayOf(trace[i])
              left == WORKING_DAY_DURATION - Logged(d) - TimeOffDeclared(d)
          IN  trace[i].quota = IF left < 0 THEN 0 ELSE left
    /\ fetches = 1 =>
          Len(existing_time_entries) =
              Len(TimeEntriesResponse(remote0, PageSize, FormatYmd(start_date)))
              + Cardinality({e \in DOMAIN external :
                    external[e].fetched = 0 /\ external[e].date >= start_date})

\* another party stored 5 hours on a day after the fetch and before the day
\* was visited, and the day was still given its whole snapshot quota
C9_Witness ==
    \E e \in DOMAIN external, i \in ThisRun :
        /\ external[e].fetched = 1
        /\ external[e].after < i
        /\ external[e].date = DayOf(trace[i])
        /\ trace[i].sent /\ trace[i].hours = 8

RECURSIVE HoursStored(_, _)
\* the hours of the entries the runs stored on day d (on any day: d = -1),
\* over the first n iterations
HoursStored(n, d) ==
    IF n = 0 THEN 0
    ELSE (IF trace[n].persisted /\ (d = -1 \/ DayOf(trace[n]) = d)
          THEN trace[n].hours ELSE 0) + HoursStored(n - 1, d)

RECURSIVE SingleRun(_, _, _)
\* what one run in which every submission succeeds stores, from cursor cur
\* with rem hours left, against the entries the remote held at first
SingleRun(cur, rem, snapshot) ==
    IF loop_condition(cur, today, rem)
    THEN LET q == get_remaining_workload(cur, snapshot, times_off)
         IN  entry_hours(q) + SingleRun(next_cursor(cur), rem - q, snapshot)
    ELSE 0

SingleRunTotal ==
    SingleRun(start_date, hours,
              TimeEntriesResponse(remote0, PageSize, FormatYmd(start_date)))

\* the current run came to its end with every submission accepted
RunComplete ==
    /\ pc = "returned" /\ result = Ok(hours)
    /\ \A i \in ThisRun : trace[i].status = "OK"

\* C10 as stated: a second run of the same request, after a run that
\* completed or stopped at a failure (one that stored nothing), brings the
\* hours created by both runs to what a single fully successful run creates.
C10_RerunIdempotent ==
    (run = 2 /\ RunComplete
       /\ \A i \in DOMAIN trace :
             trace[i].status = "OK" \/ (trace[i].status = "ERR" /\ ~trace[i].persisted))
      => HoursStored(Len(trace), -1) = SingleRunTotal

\* C10 as the code has it: a later run gives a day on which an earlier run
\* stored its entry the quota 0, so no day is booked beyond 8 hours over the
\* runs (read when a run returns), but it deducts nothing for that day and
\* carries the whole request on to the following working days: the runs
\* together create at least what a single fully successful run creates.
C10_RerunCarriesOver ==
    /\ LET now == ThisRun
       IN  \A j \in now : \A i \in DOMAIN trace \ now :
              (trace[i].persisted /\ trace[i].date = trace[j].date)
                => (trace[j].quota = 0 /\ trace[j].hours = 0)
    /\ pc = "returned" =>
          \A d \in Dates :
            LET before == SumHours(SelectSeq(remote0, LAMBDA t : t.date = d))
                            + TimeOffDeclared(d)
            IN  before <= 8 => before + HoursStored(Len(trace), d) <= 8
    /\ (run >= 2 /\ RunComplete) => HoursStored(Len(trace), -1) >= SingleRunTotal

\* the first run completed and stored what a single run stores; the second
\* run, complete as well, stored further hours on later days
C10_Witness ==
    /\ run = 2 /\ RunComplete
    /\ \A i \in DOMAIN trace : trace[i].status = "OK"
    /\ \E n \in DOMAIN trace :
          /\ trace[n].run = 1 /\ trace[n + 1].run = 2
          /\ HoursStored(n, -1) = SingleRunTotal
    /\ HoursStored(Len(trace), -1) > SingleRunTotal

\* ------------------------------------------------ requests of whole days
\* hours asked of save_time: one hour, the rest of a day that holds an entry
\* or a time off, and one, two and three whole days
AllocHours == {1, 3, 5, 8, 16, 24}

\* one run of save_time with at most one entry on the remote and at most one
\* time-off record
InitAlloc ==
    /\ remote \in InitialRemotes /\ Len(remote) <= 1
    /\ remote0 = remote
    /\ times_off \in TimesOffConfigs /\ Len(times_off) <= 1
    /\ today \in Todays
    /\ start_date \in Dates
    /\ hours \in AllocHours
    /\ dry_run \in BOOLEAN
    /\ pc = "get_account"
    /\ existing_time_entries = <<>>
    /\ current_date = start_date
    /\ remaining_input_hours = hours
    /\ result = NoResult
    /\ trace = <<>>
    /\ fetches = 0
    /\ fetch_failed = FALSE
    /\ run = 1
    /\ external = <<>>
    /\ call = NoCall

SpecAlloc == InitAlloc /\ [][Next]_vars

\* the working days d with from <= d < to, in ascending order
WorkingDays(from, to) ==
    SelectSeq([i \in 1..(IF to > from THEN to - from ELSE 0) |-> from + i - 1],
              LAMBDA d : weekday(d) \notin {"Sat", "Sun"})

\* nothing logged on d before the run and no time off declared for it
FreeDay(d) ==
    /\ \A k \in DOMAIN remote0 : remote0[k].date # d
    /\ \A k \in DOMAIN times_off : times_off[k].date # FormatYmdDash(d)

\* the case of C11: a non-dry request of k whole days from a working day,
\* with k working days before today, all of them free
WholeDaysCase(k) ==
    /\ ~dry_run
    /\ k >= 1 /\ hours = 8 * k
    /\ weekday(start_date) \notin {"Sat", "Sun"}
    /\ Len(WorkingDays(start_date, today)) >= k
    /\ \A n \in 1..k : FreeDay(WorkingDays(start_date, today)[n])

\* C11: a non-dry request of 8*k hours from a working day, with no entry and
\* no time off on the days visited and k working days before today, submits
\* (when save_time returns Ok) exactly k entries of 8 hours, on the first k
\* working days from the start date in ascending order (a Friday is followed
\* by the Monday), and nothing on a later day.
C11_WholeDays ==
    \A k \in 1..3 :
        (WholeDaysCase(k) /\ pc = "returned" /\ result.kind = "Ok") =>
            /\ Len(trace) = k
            /\ \A n \in 1..k :
                  /\ trace[n].sent
                  /\ trace[n].hours = 8
                  /\ trace[n].date = FormatYmd(WorkingDays(start_date, today)[n])

\* 16 hours from a Friday went to the Friday and to the Monday after it
C11_Witness ==
    /\ WholeDaysCase(2) /\ pc = "returned" /\ result.kind = "Ok"
    /\ weekday(start_date) = "Fri"
    /\ Len(trace) = 2
    /\ weekday(DayOf(trace[2])) = "Mon"

\* the case of C12: a non-dry request of exactly the quota q of the start
\* date, a working day before today, with q in 1..8
QuotaOfStartCase ==
    /\ ~dry_run
    /\ weekday(start_date) \notin {"Sat", "Sun"}
    /\ start_date < today
    /\ LET left == WORKING_DAY_DURATION - SumHours(SelectSeq(remote0, LAMBDA t : t.date = start_date))
                     - TimeOffDeclared(start_date)
       IN  left \in 1..8 /\ hours = left

\* C12: when the start date is a working day before today with quota q in
\* 1..8 and the request is of q hours, exactly one entry is submitted, on the
\* start date and of q hours; the remaining hours become 0 and the loop ends
\* without visiting the next working day.
C12_QuotaOfStart ==
    (QuotaOfStartCase /\ trace # <<>>) =>
        /\ Len(trace) = 1
        /\ trace[1].sent
        /\ trace[1].date = FormatYmd(start_date)
        /\ trace[1].hours = hours
        /\ trace[1].status # "ERR" =>
              /\ remaining_input_hours = 0
              /\ ~loop_condition(current_date, today, remaining_input_hours)
        /\ pc = "returned" =>
              (result.kind = "Ok" <=> trace[1].status # "ERR")

\* the 3 hours left of a day with 5 hours logged were asked and submitted,
\* with a further working day before today left unvisited
C12_Witness ==
    /\ QuotaOfStartCase /\ hours = 3
    /\ pc = "returned" /\ result.kind = "Ok"
    /\ Len(trace) = 1 /\ trace[1].hours = 3
    /\ current_date < today

\* ------------------------------------- get_remaining_workload on its own
\* most records (entries and time off together) one call is given
MaxRecords == 3

\* the date asked about: a Thursday or a Friday
QuotaDates == {0, 1}
\* hours of a record; an entry or a time-off record can hold a negative number
QuotaHours == {-2, 3, 6}
QuotaTimeOffDates == {FormatYmdDash(d) : d \in QuotaDates} \cup {NonCanonicalDate}

\* the variables of save_time, which stand still when save_time does not run
save_time_vars ==
    <<remote, remote0, times_off, today, start_date, hours, dry_run, pc,
      existing_time_entries, current_date, remaining_input_hours,
      result, trace, fetches, fetch_failed, run, external>>

IdleSaveTime ==
    /\ remote = <<>> /\ remote0 = <<>> /\ times_off = <<>>
    /\ today = 0 /\ start_date = 0 /\ hours = 0 /\ dry_run = TRUE
    /\ pc = "idle"
    /\ existing_time_entries = <<>> /\ current_date = 0
    /\ remaining_input_hours = 0
    /\ result = NoResult /\ trace = <<>>
    /\ fetches = 0 /\ fetch_failed = FALSE /\ run = 1 /\ external = <<>>

NothingAdded == [kind |-> "none", matches |-> FALSE, hours |-> 0]

InitQuota ==
    /\ IdleSaveTime
    /\ \E d \in QuotaDates :
          call = [op |-> "get_remaining_workload", pc |-> "args", date |-> d,
                  existing_time_entries |-> <<>>, times_off |-> <<>>,
                  result |-> 0, previous |-> 0, added |-> NothingAdded]

\* the call of get_remaining_workload with the arguments of the frame
WorkloadCall ==
    /\ call.op = "get_remaining_workload" /\ call.pc = "args"
    /\ call' = [call EXCEPT
                  !.pc = "done",
                  !.result = get_remaining_workload(call.date,
                                 call.existing_time_entries, call.times_off)]
    /\ UNCHANGED save_time_vars

\* the caller has one more existing entry, for the date or for another one
WorkloadAddEntry ==
    /\ call.op = "get_remaining_workload" /\ call.pc = "done"
    /\ Len(call.existing_time_entries) + Len(call.times_off) < MaxRecords
    /\ \E d \in QuotaDates, h \in QuotaHours :
          call' = [call EXCEPT
                     !.pc = "args",
                     !.existing_time_entries = Append(@, [date |-> d, hours |-> h]),
                     !.previous = call.result,
                     !.added = [kind |-> "entry", matches |-> (d = call.date),
                                hours |-> h]]
    /\ UNCHANGED save_time_vars

\* the caller has one more time-off record, for the date or for another one
WorkloadAddTimeOff ==
    /\ call.op = "get_remaining_workload" /\ call.pc = "done"
    /\ Len(call.existing_time_entries) + Len(call.times_off) < MaxRecords
    /\ \E d \in QuotaTimeOffDates, h \in QuotaHours :
          call' = [call EXCEPT
                     !.pc = "args",
                     !.times_off = Append(@, [date |-> d, hours |-> h]),
                     !.previous = call.result,
                     !.added = [kind |-> "time_off",
                                matches |-> (d = FormatYmdDash(call.date)),
                                hours |-> h]]
    /\ UNCHANGED save_time_vars

NextQuota == WorkloadCall \/ WorkloadAddEntry \/ WorkloadAddTimeOff

SpecQuota == InitQuota /\ [][NextQuota]_vars

RECURSIVE HoursOn(_, _, _)
\* the hours of the first n records of s whose date is key
HoursOn(s, n, key) ==
    IF n = 0 THEN 0
    ELSE (IF s[n].date = key THEN s[n].hours ELSE 0) + HoursOn(s, n - 1, key)

\* the hours of the frame's entries and time off that are for the frame's date
MatchingHours ==
    HoursOn(call.existing_time_entries, Len(call.existing_time_entries), call.date)
      + HoursOn(call.times_off, Len(call.times_off), FormatYmdDash(call.date))

NonNegativeRecords ==
    /\ \A k \in DOMAIN call.existing_time_entries : call.existing_time_entries[k].hours >= 0
    /\ \A k \in DOMAIN call.times_off : call.times_off[k].hours >= 0

\* C13: get_remaining_workload(date, entries, times_off) is max(0, 8 - the
\* hours of the entries of that date - the hours of the time-off records whose
\* date string is the date as YYYY-MM-DD); a record for another date does
\* not change it; with non-negative hours it is in 0..8 and does not increase
\* when a matching entry or time-off record is added.
C13_RemainingWorkload ==
    (call.op = "get_remaining_workload" /\ call.pc = "done") =>
        /\ call.result = IF 8 - MatchingHours < 0 THEN 0 ELSE 8 - MatchingHours
        /\ (call.added.kind # "none" /\ ~call.added.matches) =>
              call.result = call.previous
        /\ NonNegativeRecords =>
              /\ call.result \in 0..8
              /\ call.added.matches => call.result <= call.previous

\* a matching record brought the hours of the date above 8 and the result
\* from a positive value to 0, with a record of another date in the frame
C13_Witness ==
    /\ call.op = "get_remaining_workload" /\ call.pc = "done"
    /\ NonNegativeRecords
    /\ call.added.matches /\ call.previous > 0 /\ call.result = 0
    /\ MatchingHours > 8
    /\ \E k \in DOMAIN call.times_off : call.times_off[k].date = NonCanonicalDate

\* ------------------------------------------------- get_missing_entries
\* `time-entries missing --since`: the remote, the time-off set and today
\* are what they are for save_time; the frame holds the locals of the call.
InitMissing ==
    /\ remote \in InitialRemotes
    /\ remote0 = remote
    /\ times_off \in TimesOffConfigs
    /\ today \in Todays
    /\ start_date = 0 /\ hours = 0 /\ dry_run = TRUE
    /\ pc = "idle"
    /\ existing_time_entries = <<>> /\ current_date = 0
    /\ remaining_input_hours = 0
    /\ result = NoResult /\ trace = <<>>
    /\ fetches = 0 /\ fetch_failed = FALSE /\ run = 1 /\ external = <<>>
    /\ \E since \in Dates :
          call = [op |-> "get_missing_entries", pc |-> "start",
                  since_date |-> since, time_entries |-> <<>>,
                  d |-> since, missing |-> 0, requests |-> 0,
                  result |-> NoResult]

\* if today.le(&since_date) { return Ok(0); }
MissingEntriesStart ==
    /\ call.op = "get_missing_entries" /\ call.pc = "start"
    /\ call' = IF today <= call.since_date
               THEN [call EXCEPT !.pc = "returned", !.result = Ok(0)]
               ELSE [call EXCEPT !.pc = "account"]
    /\ UNCHANGED save_time_vars

\* last_time_entries: let account = self.get_account()?;
MissingEntriesAccount ==
    /\ call.op = "get_missing_entries" /\ call.pc = "account"
    /\ \E failed \in BOOLEAN :
          call' = IF failed /\ propagates("ERR")
                  THEN [call EXCEPT !.pc = "returned", !.requests = @ + 1,
                                    !.result = Err("last_time_entries")]
                  ELSE [call EXCEPT !.pc = "fetch", !.requests = @ + 1]
    /\ UNCHANGED save_time_vars

\* last_time_entries(500, Some(since_date))?, then missing = 0, d = since_date
MissingEntriesFetch ==
    /\ call.op = "get_missing_entries" /\ call.pc = "fetch"
    /\ \E failed \in BOOLEAN :
          call' = IF failed /\ propagates("ERR")
                  THEN [call EXCEPT !.pc = "returned", !.requests = @ + 1,
                                    !.result = Err("last_time_entries")]
                  ELSE [call EXCEPT
                          !.pc = "loop", !.requests = @ + 1,
                          !.time_entries =
                              IF failed THEN <<>>
                              ELSE TimeEntriesResponse(remote, PageSize,
                                       FormatYmd(call.since_date)),
                          !.missing = 0,
                          !.d = call.since_date]
    /\ UNCHANGED save_time_vars

\* one iteration of `while d.lt(&today)`
MissingEntriesLoop ==
    /\ call.op = "get_missing_entries" /\ call.pc = "loop"
    /\ call.d < today
    /\ LET remaining_workload ==
               get_remaining_workload(call.d, call.time_entries, times_off)
       IN  call' = [call EXCEPT
                      !.missing = IF is_working_day(call.d)
                                  THEN @ + remaining_workload ELSE @,
                      !.d = succ(call.d)]
    /\ UNCHANGED save_time_vars

\* return Ok(missing)
MissingEntriesReturn ==
    /\ call.op = "get_missing_entries" /\ call.pc = "loop"
    /\ ~(call.d < today)
    /\ call' = [call EXCEPT !.pc = "returned", !.result = Ok(call.missing)]
    /\ UNCHANGED save_time_vars

NextMissing ==
    \/ MissingEntriesStart
    \/ MissingEntriesAccount
    \/ MissingEntriesFetch
    \/ MissingEntriesLoop
    \/ MissingEntriesReturn

SpecMissing == InitMissing /\ [][NextMissing]_vars

\* what is left of the 8 hours of day d, given the entries the remote holds
\* and the time-off set
LeftOf(d) ==
    LET left == 8 - HoursOn(remote, Len(remote), d) - TimeOffDeclared(d)
    IN  IF left < 0 THEN 0 ELSE left

RECURSIVE SumLeft(_)
\* the sum of LeftOf over a sequence of days
SumLeft(days) == IF days = <<>> THEN 0 ELSE LeftOf(Head(days)) + SumLeft(Tail(days))

\* C14: get_missing_entries(since) returns the sum, over the working days d
\* with since <= d < today, of the remaining quota of d from the fetched
\* entries and the time-off set (a Saturday or a Sunday adds nothing); when
\* today <= since it returns 0 and makes no request to the remote.
C14_MissingEntries ==
    (call.op = "get_missing_entries" /\ call.pc = "returned") =>
        /\ today <= call.since_date =>
              (call.result = Ok(0) /\ call.requests = 0)
        /\ (today > call.since_date /\ call.result.kind = "Ok") =>
              call.result.value = SumLeft(WorkingDays(call.since_date, today))

\* the gap since a Thursday over a week-end: a working day with hours logged,
\* a Saturday with quota left that adds nothing
C14_Witness ==
    /\ call.op = "get_missing_entries" /\ call.pc = "returned"
    /\ call.result.kind = "Ok"
    /\ call.since_date = 0 /\ today = MaxDay
    /\ LeftOf(0) = 3
    /\ \E d \in 1..(today - 1) : weekday(d) = "Sat" /\ LeftOf(d) = 5
    /\ call.result.value = 3 + 8 * (Len(WorkingDays(0, today)) - 1)

\* C15: when save_time succeeds it returns exactly the hours it was called
\* with, whether or not they were all placed (dry run, today reached before
\* the hours ran out, days with quota 0); it succeeds unless a fetch or a
\* submission failed.
C15_ReturnsRequestedHours ==
    /\ result.kind = "Ok" => (pc = "returned" /\ result.value = hours)
    /\ pc = "returned" =>
          (result.kind = "Ok"
             <=> (~fetch_failed /\ \A i \in DOMAIN trace : trace[i].status # "ERR"))

\* a dry run reached today with hours left, after a day with quota 0, and
\* returned the hours asked
C15_Witness ==
    /\ pc = "returned" /\ result = Ok(hours)
    /\ dry_run
    /\ remaining_input_hours > 0 /\ current_date >= today
    /\ \E i \in DOMAIN trace : trace[i].quota = 0
    /\ \E i \in DOMAIN trace : trace[i].quota > 0

\* --------------------------------------------------- parse_time_duration
\* longest string given to parse_time_duration
MaxLen == 4

\* the characters of the strings: two digits, the two unit letters, another
\* character
TimeChars == {"1", "2", "d", "h", "x"}

TimeStrings == UNION {[1..n -> TimeChars] : n \in 0..MaxLen}

I32Max == 2147483647

IsDigit(c) == \E k \in DOMAIN Digits : Digits[k] = c

RECURSIVE DigitsValue(_)
\* the number a string of digits writes
DigitsValue(s) ==
    IF s = <<>> THEN 0 ELSE 10 * DigitsValue(SubSeq(s, 1, Len(s) - 1)) + DigitValue(Last(s))

\* m.as_str().parse::<i32>(): an Err for a number that i32 does not hold
ParseI32(s) ==
    IF DigitsValue(s) > I32Max THEN [kind |-> "Err", value |-> 0]
    ELSE [kind |-> "Ok", value |-> DigitsValue(s)]

RECURSIVE DigitRun(_, _)
\* [0-9]+ is greedy: the number of digits of s from position i on
DigitRun(s, i) ==
    IF i <= Len(s) /\ IsDigit(s[i]) THEN 1 + DigitRun(s, i + 1) ELSE 0

\* the group ([0-9]+)<unit> tried at position i of s: whether it takes part
\* in the match, the digits it captures, and the position after it
UnitGroup(s, i, unit) ==
    LET n == DigitRun(s, i)
    IN  IF n >= 1 /\ i + n <= Len(s) /\ s[i + n] = unit
        THEN [matched |-> TRUE, digits |-> SubSeq(s, i, i + n - 1), next |-> i + n + 1]
        ELSE [matched |-> FALSE, digits |-> <<>>, next |-> i]

\* Regex::new(r#"(([0-9]+)d)?(([0-9]+)h)?"#).captures(time): the pattern is
\* not anchored and matches the empty string, so the leftmost match starts
\* at the first character and stops where the groups stop
Captures(time) ==
    LET days == UnitGroup(time, 1, "d")
        hrs == UnitGroup(time, days.next, "h")
    IN  [input_days |-> days, input_hours |-> hrs]

NoneOption == [kind |-> "None", value |-> 0]

SomeOption(v) == [kind |-> "Some", value |-> v]

Panic == [kind |-> "panic", value |-> 0]

parse_time_duration(time) ==
    LET c == Captures(time)
        d == IF c.input_days.matched THEN ParseI32(c.input_days.digits)
             ELSE [kind |-> "Ok", value |-> 0]
        h == IF c.input_hours.matched THEN ParseI32(c.input_hours.digits)
             ELSE [kind |-> "Ok", value |-> 0]
    IN  IF ~c.input_days.matched /\ ~c.input_hours.matched THEN NoneOption
        ELSE IF d.kind = "Err" \/ h.kind = "Err" THEN Panic
        ELSE IF d.value * 8 + h.value > I32Max THEN Panic
        ELSE SomeOption(d.value * 8 + h.value)

InitParse ==
    /\ IdleSaveTime
    /\ \E s \in TimeStrings :
          call = [op |-> "parse_time_duration", pc |-> "args", time |-> s,
                  result |-> NoneOption]

\* let hours = parse_time_duration(time.as_str())
ParseTimeDuration ==
    /\ call.op = "parse_time_duration" /\ call.pc = "args"
    /\ call' = [call EXCEPT !.pc = "done", !.result = parse_time_duration(call.time)]
    /\ UNCHANGED save_time_vars

NextParse == ParseTimeDuration

SpecParse == InitParse /\ [][NextParse]_vars

\* a component of the grammar: empty, or digits followed by the unit
Component(t, unit) ==
    \/ t = <<>>
    \/ /\ Len(t) >= 2 /\ Last(t) = unit
       /\ \A k \in 1..(Len(t) - 1) : IsDigit(t[k])

ComponentValue(t) == IF t = <<>> THEN 0 ELSE DigitsValue(SubSeq(t, 1, Len(t) - 1))

\* the ways to read s as <D>d<H>h with either component optional, not both
\* absent: the lengths of the day component
GrammarSplits(s) ==
    { i \in 0..Len(s) :
        /\ s # <<>>
        /\ Component(SubSeq(s, 1, i), "d")
        /\ Component(SubSeq(s, i + 1, Len(s)), "h") }

\* C16 as stated: parse_time_duration accepts exactly the strings <D>d<H>h
\* with either component optional and returns 8*D + H for them; for every
\* other string it returns None.
C16_ParsesExactlyGrammar ==
    (call.op = "parse_time_duration" /\ call.pc = "done") =>
        IF GrammarSplits(call.time) # {}
        THEN \E i \in GrammarSplits(call.time) :
                call.result =
                    SomeOption(8 * ComponentValue(SubSeq(call.time, 1, i))
                               + ComponentValue(SubSeq(call.time, i + 1, Len(call.time))))
        ELSE call.result = NoneOption

\* ----------------------------------------------------------- termination
\* save_time is sequential code: a step that can be taken is taken, once the
\* call it waits for has returned.
SpecAllocFair == InitAlloc /\ [][Next]_vars /\ WF_vars(Next)

\* C19: once the fetches have succeeded and every submission call returns,
\* the loop of save_time ends, whatever the start date, the hours and the
\* snapshot (days with quota 0 leave the remaining hours as they are): the
\* cursor is strictly later after every iteration, and with the cursor at
\* today or later the only step left is the return.
C19_LoopTerminates ==
    /\ [][(pc = "loop" /\ pc' = "loop") => current_date' > current_date]_vars
    /\ [][(pc = "loop" /\ current_date >= today) => pc' = "returned"]_vars
    /\ (pc = "loop") ~> (pc = "returned")

\* a run whose visited days all had quota 0 kept all its hours and ended
\* when the cursor reached today
C19_Witness ==
    /\ pc = "returned" /\ result = Ok(hours)
    /\ trace # <<>>
    /\ \A i \in DOMAIN trace : trace[i].quota = 0
    /\ remaining_input_hours = hours
    /\ current_date >= today

RECURSIVE QuotaTotal(_)
\* the quotas of the first n iterations
QuotaTotal(n) == IF n = 0 THEN 0 ELSE trace[n].quota + QuotaTotal(n - 1)

RECURSIVE SentTotal(_)
\* the hours of the creation requests of the first n iterations
SentTotal(n) ==
    IF n = 0 THEN 0
    ELSE (IF trace[n].sent THEN trace[n].hours ELSE 0) + SentTotal(n - 1)

\* C20: each visited day is given its whole quota, so the hours T placed by
\* one run of a request of hours > 0 can exceed the request, within bounds:
\* T <= hours + 7 at every point of the run, and T >= hours when the loop
\* ended with the cursor before today.
C20_PlacedHoursBounds ==
    hours > 0 =>
        /\ QuotaTotal(Len(trace)) <= hours + 7
        /\ SentTotal(Len(trace)) <= hours + 7
        /\ ~dry_run => SentTotal(Len(trace)) = QuotaTotal(Len(trace))
        /\ (pc = "returned" /\ result.kind = "Ok" /\ current_date < today) =>
              QuotaTotal(Len(trace)) >= hours

\* a request of one hour placed the 8 hours of the start date and stopped
\* before today
C20_Witness ==
    /\ pc = "returned" /\ result = Ok(hours)
    /\ ~dry_run /\ hours = 1
    /\ current_date < today
    /\ SentTotal(Len(trace)) = hours + 7

\* ------------------------------------------------------ the configuration
\* TeamWorkConfig and its persistence (src/src/teamwork_config.rs).  A JSON
\* file is the object it holds: for every key whether it is absent, null or
\* has a value.
Alias1 == [project_id |-> "project-id-1", alias |-> "project-alias-1"]

AliasLists == {<<>>, <<Alias1>>, <<Alias1, Alias1>>}

StarredLists == {<<>>, <<124343>>, <<124343, 24543543>>}

Configs ==
    [company_id : {"test-company-id"}, token : {"test-token"},
     project_aliases : AliasLists, times_off : TimesOffConfigs,
     starred_tasks : StarredLists]

SomeOf(v) == [some |-> TRUE, value |-> v]

NoneOf(empty) == [some |-> FALSE, value |-> empty]

\* impl From<&TeamWorkConfig> for SerializableTeamWorkConfig
ToSerializable_no_starred(config) ==
    [company_id |-> config.company_id, token |-> config.token,
     project_aliases |-> SomeOf(config.project_aliases),
     times_off |-> SomeOf(config.times_off),
     starred_tasks |-> NoneOf(<<>>)]

ToSerializable(config) ==
    [company_id |-> config.company_id, token |-> config.token,
     project_aliases |-> SomeOf(config.project_aliases),
     times_off |-> SomeOf(config.times_off),
     starred_tasks |-> SomeOf(config.starred_tasks)]

JsonValue(v) == [state |-> "value", value |-> v]

JsonNull(empty) == [state |-> "null", value |-> empty]

JsonAbsent(empty) == [state |-> "absent", value |-> empty]

\* how serde writes an Option: the value of Some, null for None
JsonOfOption(opt) == IF opt.some THEN JsonValue(opt.value) ELSE JsonNull(opt.value)

\* how serde reads an Option: None for a key that is absent or null
OptionOfJson(j) == IF j.state = "value" THEN SomeOf(j.value) ELSE NoneOf(j.value)

\* serde_json::to_string_pretty(&serializable_config)
to_string_pretty(sc) ==
    [company_id |-> JsonValue(sc.company_id), token |-> JsonValue(sc.token),
     project_aliases |-> JsonOfOption(sc.project_aliases),
     times_off |-> JsonOfOption(sc.times_off),
     starred_tasks |-> JsonOfOption(sc.starred_tasks)]

\* serde_json::from_str::<SerializableTeamWorkConfig>: company_id and token
\* are required strings
from_str(json) ==
    IF json.company_id.state # "value" \/ json.token.state # "value"
    THEN [kind |-> "Err",
          value |-> [company_id |-> "", token |-> "",
                     project_aliases |-> NoneOf(<<>>), times_off |-> NoneOf(<<>>),
                     starred_tasks |-> NoneOf(<<>>)]]
    ELSE [kind |-> "Ok",
          value |-> [company_id |-> json.company_id.value, token |-> json.token.value,
                     project_aliases |-> OptionOfJson(json.project_aliases),
                     times_off |-> OptionOfJson(json.times_off),
                     starred_tasks |-> OptionOfJson(json.starred_tasks)]]

\* Option::unwrap_or_else(|| vec![])
unwrap_or_else_empty(opt) == IF opt.some THEN opt.value ELSE <<>>

\* impl From<SerializableTeamWorkConfig> for TeamWorkConfig
FromSerializable(sc) ==
    [company_id |-> sc.company_id, token |-> sc.token,
     project_aliases |-> unwrap_or_else_empty(sc.project_aliases),
     times_off |-> unwrap_or_else_empty(sc.times_off),
     starred_tasks |-> unwrap_or_else_empty(sc.starred_tasks)]

EmptyConfig ==
    [company_id |-> "", token |-> "", project_aliases |-> <<>>,
     times_off |-> <<>>, starred_tasks |-> <<>>]

NoFile == [exists |-> FALSE, content |-> to_string_pretty(ToSerializable(EmptyConfig))]

FileOf(json) == [exists |-> TRUE, content |-> json]

\* save_config_to_path: the file after fs::write succeeded
save_config_to_path(config) == FileOf(to_string_pretty(ToSerializable(config)))

\* get_config_from_path
get_config_from_path(file) ==
    IF ~file.exists THEN [kind |-> "OkNone", config |-> EmptyConfig]
    ELSE LET serializable_config == from_str(file.content)
         IN  IF serializable_config.kind = "Err"
             THEN [kind |-> "Err", config |-> EmptyConfig]
             ELSE [kind |-> "OkSome",
                   config |-> FromSerializable(serializable_config.value)]

Range(s) == {s[k] : k \in DOMAIN s}

\* array_eq: the same length and the same set of elements
array_eq(a, b) == Len(a) = Len(b) /\ Range(a) = Range(b)

\* impl PartialEq<TeamWorkConfig> for TeamWorkConfig
config_eq(a, b) ==
    /\ a.company_id = b.company_id
    /\ a.token = b.token
    /\ array_eq(a.times_off, b.times_off)
    /\ array_eq(a.starred_tasks, b.starred_tasks)
    /\ array_eq(a.project_aliases, b.project_aliases)

\* TeamWorkConfig::with_time_off
with_time_off_no_retain(self, date, hours_arg) ==
    [self EXCEPT !.times_off =
        IF hours_arg > 0 THEN Append(@, [date |-> date, hours |-> hours_arg]) ELSE @]

with_time_off(self, date, hours_arg) ==
    LET off == [date |-> date, hours |-> hours_arg]
        retained == SelectSeq(self.times_off, LAMBDA time_off : time_off.date # date)
    IN  [self EXCEPT !.times_off =
            IF hours_arg > 0 THEN Append(retained, off) ELSE retained]

\* ------------------------------------------------------ `time-off save`
\* most `time-off save` commands in a row
MaxCalls == 3

\* hours given to `time-off save -h`
WithTimeOffHours == {-1, 0, 4, 8}

TimeOffDateIndexes == 1..(Len(TimeOffDays) + 1)

NotCalled == [called |-> FALSE, hours |-> 0]

\* the configuration file holds a config with one alias, one starred task
\* and at most one time-off record per date
InitTimeOff ==
    /\ IdleSaveTime
    /\ \E c \in Configs :
          /\ Len(c.project_aliases) = 1 /\ Len(c.starred_tasks) = 1
          /\ call = [op |-> "with_time_off", calls |-> 0,
                     file |-> save_config_to_path(c),
                     initial |-> c, loaded |-> c, self |-> c, new_config |-> c,
                     last |-> [i \in TimeOffDateIndexes |-> NotCalled]]

\* `time-off save -d date -h hours`: main reads the configuration file,
\* handle_time_off_command builds new_config = config.with_time_off(date,
\* hours) and save_config(&new_config) writes it
TimeOffSave ==
    /\ call.op = "with_time_off"
    /\ call.calls < MaxCalls
    /\ get_config_from_path(call.file).kind = "OkSome"
    /\ \E i \in TimeOffDateIndexes, h \in WithTimeOffHours :
          LET config == get_config_from_path(call.file).config
              new_config == with_time_off(config, TimeOffDate(i), h)
          IN  call' = [call EXCEPT
                         !.calls = @ + 1,
                         !.loaded = config,
                         !.self = config,
                         !.new_config = new_config,
                         !.file = save_config_to_path(new_config),
                         !.last = [@ EXCEPT ![i] = [called |-> TRUE, hours |-> h]]]
    /\ UNCHANGED save_time_vars

NextTimeOff == TimeOffSave

SpecTimeOff == InitTimeOff /\ [][NextTimeOff]_vars

\* the records of a time-off list for a date string
RecordsFor(list, date) == {k \in DOMAIN list : list[k].date = date}

\* C17: from a config with at most one time-off record per date, after any
\* sequence of with_time_off(date, hours) calls the config has at most one
\* record per date; the record of a date holds the hours of the last call
\* for it, and there is none when those hours are <= 0; the records of the
\* dates no call named and the other fields are as they were; the config a
\* call was made on is not modified.
C17_TimeOffLastWriteWins ==
    call.op = "with_time_off" =>
        LET now == call.new_config IN
        /\ \A i \in TimeOffDateIndexes :
              LET recs == RecordsFor(now.times_off, TimeOffDate(i))
                  was == RecordsFor(call.initial.times_off, TimeOffDate(i))
              IN  /\ Cardinality(recs) <= 1
                  /\ call.last[i].called =>
                        IF call.last[i].hours > 0
                        THEN \E k \in recs : now.times_off[k].hours = call.last[i].hours
                        ELSE recs = {}
                  /\ ~call.last[i].called =>
                        /\ Cardinality(recs) = Cardinality(was)
                        /\ \A k \in recs, j \in was :
                              now.times_off[k].hours = call.initial.times_off[j].hours
        /\ \A k \in DOMAIN now.times_off :
              \E i \in TimeOffDateIndexes : now.times_off[k].date = TimeOffDate(i)
        /\ now.company_id = call.initial.company_id
        /\ now.token = call.initial.token
        /\ now.project_aliases = call.initial.project_aliases
        /\ now.starred_tasks = call.initial.starred_tasks
        /\ call.self = call.loaded
        /\ get_config_from_path(call.file).config = now

\* a date was given 4 then 8 hours and its record holds 8, a call with
\* hours <= 0 left no record for another date, and the record the config had
\* at first for a third date is there
C17_Witness ==
    /\ call.op = "with_time_off" /\ call.calls = 3
    /\ \E i, j, k \in TimeOffDateIndexes :
          /\ i # j /\ i # k /\ j # k
          /\ call.last[i].called /\ call.last[i].hours = 8
          /\ call.self.times_off # <<>>
          /\ \E n \in DOMAIN call.self.times_off :
                /\ call.self.times_off[n].date = TimeOffDate(i)
                /\ call.self.times_off[n].hours = 4
          /\ call.last[j].called /\ call.last[j].hours <= 0
          /\ ~call.last[k].called
          /\ RecordsFor(call.new_config.times_off, TimeOffDate(k)) # {}

\* ------------------------------------------- the configuration file read
ConfigKeys == {"company_id", "token", "project_aliases", "times_off", "starred_tasks"}

\* a file written by hand or by another version: the JSON of a config with
\* the keys of `omitted` left out
HandFile(c, omitted) ==
    LET json == to_string_pretty(ToSerializable(c))
    IN  FileOf([key \in ConfigKeys |->
                   IF key \in omitted THEN JsonAbsent(json[key].value) ELSE json[key]])

NoRead == [kind |-> "none", config |-> EmptyConfig]

InitConfig ==
    /\ IdleSaveTime
    /\ call = [op |-> "config", pc |-> "idle", file |-> NoFile,
               origin |-> "absent", written |-> EmptyConfig, omitted |-> {},
               read |-> NoRead]

\* save_config_to_path(&config, &path); fs::write can fail, and the file is
\* then taken to be as it was
SaveConfigToPath ==
    /\ call.op = "config"
    /\ \E c \in Configs, failed \in BOOLEAN :
          call' = IF failed THEN [call EXCEPT !.pc = "idle", !.read = NoRead]
                  ELSE [call EXCEPT
                          !.pc = "idle", !.read = NoRead,
                          !.file = save_config_to_path(c),
                          !.origin = "save", !.written = c, !.omitted = {}]
    /\ UNCHANGED save_time_vars

\* fs::write(path, text) of a JSON text that leaves keys out, where there
\* is no file or a file that save_config_to_path wrote
WriteFile ==
    /\ call.op = "config" /\ call.origin # "hand"
    /\ \E c \in Configs, omitted \in SUBSET ConfigKeys :
          call' = [call EXCEPT
                     !.pc = "idle", !.read = NoRead,
                     !.file = HandFile(c, omitted),
                     !.origin = "hand", !.written = c, !.omitted = omitted]
    /\ UNCHANGED save_time_vars

\* get_config_from_path(&path)
GetConfigFromPath ==
    /\ call.op = "config" /\ call.pc = "idle"
    /\ call' = [call EXCEPT !.pc = "read", !.read = get_config_from_path(call.file)]
    /\ UNCHANGED save_time_vars

NextConfig == SaveConfigToPath \/ WriteFile \/ GetConfigFromPath

SpecConfig == InitConfig /\ [][NextConfig]_vars

\* C18: get_config_from_path on a file written by save_config_to_path gives
\* a config equal to the one written (company_id, token, project aliases,
\* times off, starred tasks); a file without project_aliases, times_off or
\* starred_tasks reads as a config in which that sequence is empty; a path
\* that does not exist reads as Ok(None), not as an error.
C18_ConfigRoundTrip ==
    (call.op = "config" /\ call.pc = "read") =>
        /\ call.origin = "absent" => call.read.kind = "OkNone"
        /\ call.origin = "save" =>
              /\ call.read.kind = "OkSome"
              /\ config_eq(call.read.config, call.written)
              /\ call.read.config.company_id = call.written.company_id
              /\ call.read.config.token = call.written.token
              /\ call.read.config.project_aliases = call.written.project_aliases
              /\ call.read.config.times_off = call.written.times_off
              /\ call.read.config.starred_tasks = call.written.starred_tasks
        /\ (call.origin = "hand" /\ "company_id" \notin call.omitted
              /\ "token" \notin call.omitted) =>
              /\ call.read.kind = "OkSome"
              /\ call.read.config.project_aliases =
                    IF "project_aliases" \in call.omitted THEN <<>>
                    ELSE call.written.project_aliases
              /\ call.read.config.times_off =
                    IF "times_off" \in call.omitted THEN <<>>
                    ELSE call.written.times_off
              /\ call.read.config.starred_tasks =
                    IF "starred_tasks" \in call.omitted THEN <<>>
                    ELSE call.written.starred_tasks

\* the config of the tests (two equal aliases, two starred tasks, time off)
\* was saved and read back
C18_Witness ==
    /\ call.op = "config" /\ call.pc = "read" /\ call.origin = "save"
    /\ call.read.kind = "OkSome"
    /\ Len(call.read.config.project_aliases) = 2
    /\ Len(call.read.config.starred_tasks) = 2
    /\ call.read.config.times_off # <<>>

\* --------------------------------------- the gap computed, filled, computed
\* `time-entries missing --since d`, then `time-entries save --start-date d`
\* with the hours the first command printed, then the first command again.
InitGap ==
    /\ remote \in InitialRemotes /\ Len(remote) <= 1
    /\ remote0 = remote
    /\ times_off \in TimesOffConfigs /\ Len(times_off) <= 1
    /\ today \in Todays
    /\ start_date \in Dates
    /\ hours = 0 /\ dry_run = FALSE
    /\ pc = "idle"
    /\ existing_time_entries = <<>> /\ current_date = start_date
    /\ remaining_input_hours = 0
    /\ result = NoResult /\ trace = <<>>
    /\ fetches = 0 /\ fetch_failed = FALSE /\ run = 1 /\ external = <<>>
    /\ call = [op |-> "get_missing_entries", pc |-> "start",
               since_date |-> start_date, time_entries |-> <<>>,
               d |-> start_date, missing |-> 0, requests |-> 0,
               result |-> NoResult, pass |-> 1, first |-> 0]

\* the Save command with the hours the Missing command returned
SaveMissing ==
    /\ call.op = "get_missing_entries" /\ call.pc = "returned"
    /\ call.pass = 1 /\ call.result.kind = "Ok"
    /\ pc = "idle"
    /\ hours' = call.result.value
    /\ remaining_input_hours' = call.result.value
    /\ pc' = "get_account"
    /\ UNCHANGED <<remote, remote0, times_off, today, start_date, dry_run,
                   existing_time_entries, current_date, result, trace,
                   fetches, fetch_failed, run, external, call>>

\* the Missing command once more, after save_time has returned
MissingAgain ==
    /\ call.op = "get_missing_entries" /\ call.pc = "returned"
    /\ call.pass = 1
    /\ pc = "returned"
    /\ call' = [call EXCEPT
                  !.pc = "start", !.pass = 2, !.first = call.result.value,
                  !.time_entries = <<>>, !.d = call.since_date,
                  !.missing = 0, !.requests = 0, !.result = NoResult]
    /\ UNCHANGED save_time_vars

NextGap == NextMissing \/ SaveMissing \/ Next \/ MissingAgain

SpecGap == InitGap /\ [][NextGap]_vars

\* the case of C21: the gap since a working day was computed, save_time ran
\* for those hours from that day with every submission accepted and stored,
\* and the gap was computed again
GapFilledCase ==
    /\ call.op = "get_missing_entries" /\ call.pc = "returned" /\ call.pass = 2
    /\ call.result.kind = "Ok"
    /\ weekday(call.since_date) \notin {"Sat", "Sun"}
    /\ pc = "returned" /\ result.kind = "Ok"
    /\ hours = call.first /\ start_date = call.since_date /\ ~dry_run
    /\ \A i \in DOMAIN trace : trace[i].status = "OK" /\ trace[i].persisted

\* C21: when since is a working day, m = get_missing_entries(since), and
\* save_time then runs non-dry from since with hours = m against the same
\* entries, time-off set and today with every submission succeeding, then
\* get_missing_entries(since) over the entries the remote holds afterwards
\* is 0.
C21_GapFilled ==
    GapFilledCase => call.result.value = 0

\* a gap of a part day and of whole days over a week-end was filled by
\* several entries and is 0 afterwards
C21_Witness ==
    /\ GapFilledCase
    /\ call.first > 8 /\ call.first % 8 # 0
    /\ Len(trace) >= 3
    /\ \E i \in DOMAIN trace : weekday(DayOf(trace[i])) = "Mon"
    /\ call.result.value = 0

\* ------------------------------------------- a dry run, then the real run
\* `time-entries save --dry-run`, then the same command without --dry-run.
InitDryReal == InitAlloc /\ dry_run

\* the request again, for real: the frame keeps where the dry run stopped
RunForReal ==
    /\ pc = "returned"
    /\ dry_run /\ run = 1
    /\ dry_run' = FALSE
    /\ run' = run + 1
    /\ call' = [op |-> "save_time", dry_result |-> result,
                dry_cursor |-> current_date,
                dry_remaining |-> remaining_input_hours]
    /\ pc' = "get_account"
    /\ existing_time_entries' = <<>>
    /\ current_date' = start_date
    /\ remaining_input_hours' = hours
    /\ result' = NoResult
    /\ fetches' = 0
    /\ fetch_failed' = FALSE
    /\ UNCHANGED <<remote, remote0, times_off, today, start_date, hours,
                   trace, external>>

NextDryReal == Next \/ RunForReal

SpecDryReal == InitDryReal /\ [][NextDryReal]_vars

\* the (date, hours) pairs a dry run reported, in order
DryPairs ==
    LET lines == SelectSeq(trace, LAMBDA l : l.run = 1)
    IN  [i \in DOMAIN lines |-> <<lines[i].date, lines[i].quota>>]

\* the (date, hours) pairs the real run submitted, in order
RealPairs ==
    LET lines == SelectSeq(trace, LAMBDA l : l.run = 2)
    IN  [i \in DOMAIN lines |-> <<lines[i].date, lines[i].hours>>]

\* the case of C22: the dry run and then the real run of the same request
\* have both returned Ok, the remote having accepted every submission
DryRealCase ==
    /\ call.op = "save_time" /\ call.dry_result.kind = "Ok"
    /\ run = 2 /\ pc = "returned" /\ result.kind = "Ok"
    /\ \A i \in DOMAIN trace :
          trace[i].run = 2 => (trace[i].sent /\ trace[i].status = "OK")

\* C22: for the same start date, hours, snapshot, time-off set and today and
\* a remote that accepts every submission, the (date, hours) pairs a dry run
\* reports are, in order, the pairs the real run submits, and both runs stop
\* at the same cursor with the same remaining hours.
C22_DryRunPredicts ==
    DryRealCase =>
        /\ DryPairs = RealPairs
        /\ call.dry_cursor = current_date
        /\ call.dry_remaining = remaining_input_hours
        /\ \A i \in DOMAIN trace : trace[i].run = 1 => ~trace[i].sent

\* both runs went over a day with 3 or 5 hours left and then a further day,
\* and stopped before today with the hours used up
C22_Witness ==
    /\ DryRealCase
    /\ Len(RealPairs) >= 2
    /\ RealPairs[1][2] \in {3, 5}
    /\ current_date < today /\ remaining_input_hours <= 0

====
